---- MODULE Spec2Model ----
(***************************************************************************)
(* mesos-term: the sandbox descriptor cache (cacheSandboxDescriptor), the  *)
(* sandbox gate and its route handlers, the task page / API authorization  *)
(* middlewares, and the terminal session registry of app.js.               *)
(*                                                                         *)
(* The Node.js process is single threaded: every callback runs to          *)
(* completion, so each action below is one callback (a request handler up  *)
(* to its first await, the continuation after an await, a timer, a pty or  *)
(* websocket event).                                                       *)
(***************************************************************************)
EXTENDS Integers, Sequences, FiniteSets, TLC

VARIABLES
    now,        \* the wall clock read by new Date(), in seconds
    cache,      \* cacheSandboxDescriptor: taskID -> [expireAt, locator]
    calls,      \* resolve calls made directly on sandboxCache, with their history
    gen,        \* per task, the number of entries stored so far (history)
    env,        \* the configuration read at start-up (env vars)
    terminals,  \* app.js: var terminals = {}, pid -> term
    logs,       \* app.js: var logs = {}, pid -> output so far
    procs,      \* the pty processes spawned so far (the term objects)
    chans,      \* the websockets accepted on /terminals/:pid
    resp,       \* the outcome of the last lookup by handle (resize, attach)
    closed,     \* handles whose session a channel closure destroyed (history)
    reqs,       \* the requests on /api/sandbox/*, each with its position
    adminsByTaskId, \* getAdminsByTaskId(req): taskID -> the allow-list
    userByTaskId,   \* getUserByTaskId(req): taskID -> the task's user
    page        \* the answer to the last task page or API request

cacheVars == <<now, cache, calls, gen>>
termVars == <<terminals, logs, procs, chans, resp, closed>>

\* what the cache actions and the terminal actions leave alone
pageVars == <<adminsByTaskId, userByTaskId, page>>
nonCacheVars == <<env, termVars, reqs, pageVars>>
nonTermVars == <<env, cacheVars, reqs, pageVars>>
nonSandboxVars == <<env, calls, gen, termVars, pageVars>>
nonPageVars == <<env, cacheVars, termVars, reqs>>

vars == <<now, cache, calls, gen, env, terminals, logs, procs, chans, resp, closed,
          reqs, adminsByTaskId, userByTaskId, page>>

----------------------------------------------------------------------------
(* Bounds of the model *)

\* number of resolve calls followed in SpecCache
MaxCalls == 3
\* the clock stops advancing at MaxTime
MaxTime == 15
\* seconds between two observations of the clock
TickStep == 5
\* number of pty processes spawned in SpecTerm
MaxProcs == 2
\* number of process ids the operating system hands out
MaxPids == 2
\* number of websockets accepted
MaxChans == 2
\* number of chunks a process emits
MaxChunks == 2
\* number of sandbox requests followed in SpecSandbox
MaxReqs == 2

----------------------------------------------------------------------------
(* The cluster: tasks and what the collaborators answer *)

Tasks == {"t-1", "t-2"}

\* taskInfo.statuses as getTaskInfo may answer it: no status yet, or the
\* history of a task that has started
StatusHistories == {<<>>, <<"TASK_STARTING", "TASK_RUNNING">>}

\* (taskInfo.statuses.length > 0) ? taskInfo.statuses[length - 1] : 'UNKNOWN'
LastStatus(statuses) ==
    IF Len(statuses) > 0 THEN statuses[Len(statuses)] ELSE "UNKNOWN"

NoDesc == [task |-> "none", last_status |-> "none"]

\* The descriptor assembled by the fetcher given to cacheSandboxDescriptor:
\* the location fields are functions of the task, last_status is the last
\* entry of taskInfo.statuses or 'UNKNOWN'.
Descriptor(taskID, status) == [task |-> taskID, last_status |-> status]

\* What a failing collaborator throws
FetchErrors == {"TaskNotFoundError", "MesosAgentNotFoundError", "Error"}

----------------------------------------------------------------------------
(* Principals, task descriptors and the configuration *)

\* the principals the identity collaborator yields: req.user.cn
Users == {"alice", "carol", "admin"}

\* req.user.memberOf
MemberOf(cn) ==
    CASE cn = "alice" -> {"dev"}
      [] cn = "carol" -> {}
      [] cn = "admin" -> {"admins"}

\* every task the cluster knows; Tasks are the ones whose sandbox is asked for
AllTasks == {"t-1", "t-2", "t-3", "t-4", "t-5"}

\* the label key Constants.DEBUG_ALLOWED_TO_KEY
DEBUG_ALLOWED_TO_KEY == "debug_allowed_to"

\* What getTaskInfo answers: the labels (the allow-list label, when present,
\* is the comma separated list of names, held here as the list of its
\* parts) and the user the task runs as.
TaskInfo(taskID) ==
    CASE taskID = "t-1" -> [labels |-> [k \in {DEBUG_ALLOWED_TO_KEY} |-> <<"alice", "bob">>],
                            user |-> "www"]
      [] taskID = "t-2" -> [labels |-> <<>>, user |-> "carol"]
      [] taskID = "t-3" -> [labels |-> [k \in {DEBUG_ALLOWED_TO_KEY} |-> <<"alice">>],
                            user |-> "carol"]
      [] taskID = "t-4" -> [labels |-> <<>>, user |-> "root"]
      [] taskID = "t-5" -> [labels |-> [k \in {DEBUG_ALLOWED_TO_KEY} |-> <<"carol", "bob">>],
                            user |-> "carol"]

\* task.labels[DEBUG_ALLOWED_TO_KEY].split(',')
Split(label) == {label[i] : i \in 1..Len(label)}

\* env.SUPER_ADMINS
SUPER_ADMINS == {"admins"}

\* LDAP_ALLOWED_GROUPS not set: allowed_groups stays undefined
NoGroups == {"undefined"}

\* the access tokens a request may carry; the valid one is derived from the task
NoToken == "none"
TokenOf(taskID) == <<"token", taskID>>

\* a request on /api/sandbox/* that has not arrived yet
Reqs == 1..MaxReqs
NoReq == [pc |-> "free", user |-> "none", task |-> "none", token |-> NoToken,
          status |-> "none", gate |-> "none", checked |-> NoDesc,
          next |-> FALSE, io |-> FALSE, used |-> NoDesc, sent |-> <<>>]

Allow == [allow |-> TRUE, reason |-> "none"]
Deny(task) ==
    [allow |-> FALSE,
     reason |-> IF task.user = "root" THEN "unauthorized access to root container"
                                      ELSE "unauthorized access to container"]

\* The authorization evaluator: the rules in their order, first match wins.
\* hasList/list: the allow-list label; owner: the owning user ("" when
\* the task has none).
authorize(enabled, cn, memberOf, hasList, list, owner, token, validToken) ==
    LET task == [user |-> owner] IN
    IF ~enabled THEN Allow
    ELSE IF hasList THEN (IF cn \in list THEN Allow ELSE Deny(task))
    ELSE IF owner # "" /\ owner = cn THEN Allow
    ELSE IF memberOf \cap SUPER_ADMINS # {} THEN Allow
    ELSE IF token # NoToken /\ token = validToken THEN Allow
    ELSE Deny(task)

\* CheckTaskAuthorization(req, task, access_token) on a task descriptor
CheckTaskAuthorization(cn, taskID, token) ==
    LET task == TaskInfo(taskID) IN
    authorize(env.AUTHORIZATIONS_ENABLED, cn, MemberOf(cn),
              DEBUG_ALLOWED_TO_KEY \in DOMAIN task.labels,
              IF DEBUG_ALLOWED_TO_KEY \in DOMAIN task.labels
                  THEN Split(task.labels[DEBUG_ALLOWED_TO_KEY]) ELSE {},
              task.user, token, TokenOf(taskID))

----------------------------------------------------------------------------
(* cacheSandboxDescriptor *)

\* Moment(new Date()).add(10, 'second')
TTL == 10

\* mutant: the expiry comparison reversed
CacheHit_Reversed(taskID) ==
    /\ taskID \in DOMAIN cache
    /\ cache[taskID].expireAt < now

\* mutant: the expiry is not looked at
CacheHit_NoExpiry(taskID) ==
    taskID \in DOMAIN cache

\* mutant: an entry is still served at the instant it expires
CacheHit_Inclusive(taskID) ==
    /\ taskID \in DOMAIN cache
    /\ cache[taskID].expireAt >= now

\* taskID in cache && cache[taskID].expireAt > new Date()
CacheHit(taskID) ==
    /\ taskID \in DOMAIN cache
    /\ cache[taskID].expireAt > now

\* mutant: a completing fetch does not overwrite a live entry
CacheStore_KeepFirst(taskID, res) ==
    IF taskID \in DOMAIN cache /\ cache[taskID].expireAt > now
        THEN cache
        ELSE [t \in (DOMAIN cache) \cup {taskID} |->
                 IF t = taskID THEN [expireAt |-> now + TTL, locator |-> res]
                               ELSE cache[t]]

\* cache[taskID] = { expireAt: now + 10 s, locator: res }
CacheStore(taskID, res) ==
    [t \in (DOMAIN cache) \cup {taskID} |->
        IF t = taskID THEN [expireAt |-> now + TTL, locator |-> res]
                      ELSE cache[t]]

\* mutant: the sweep empties the cache
ExpiredTaskIDs_All == DOMAIN cache

\* the entries clearExpiredEntries collects: cache[taskID].expireAt < new Date()
ExpiredTaskIDs == {t \in DOMAIN cache : cache[t].expireAt < now}

\* setInterval(clearExpiredEntries, 1000)
clearExpiredEntries ==
    /\ cache' = [t \in (DOMAIN cache) \ ExpiredTaskIDs |-> cache[t]]
    /\ UNCHANGED <<now, calls, gen, nonCacheVars>>

\* time passes
Tick ==
    /\ now + TickStep <= MaxTime
    /\ now' = now + TickStep
    /\ UNCHANGED <<cache, calls, gen, nonCacheVars>>

----------------------------------------------------------------------------
(* resolve calls on sandboxCache, followed one by one *)

Calls == 1..MaxCalls

FreeCall == [st |-> "free", task |-> "none", start |-> 0, end |-> 0,
             fetched |-> FALSE, status |-> "none", res |-> NoDesc,
             err |-> "none", genAtStart |-> 0, genStored |-> 0]

\* the async function returned by cacheSandboxDescriptor, up to its await
ResolveStart(c, taskID) ==
    /\ calls[c].st = "free"
    /\ \A d \in Calls : d < c => calls[d].st # "free"
    /\ IF CacheHit(taskID)
         THEN calls' = [calls EXCEPT ![c] =
                  [@ EXCEPT !.st = "done", !.task = taskID, !.start = now,
                            !.end = now, !.res = cache[taskID].locator,
                            !.genAtStart = gen[taskID]]]
         ELSE calls' = [calls EXCEPT ![c] =
                  [@ EXCEPT !.st = "taskinfo", !.task = taskID, !.start = now,
                            !.fetched = TRUE, !.genAtStart = gen[taskID]]]
    /\ UNCHANGED <<now, cache, gen, nonCacheVars>>

\* mutant: the resolver swallows the error and returns undefined
Rethrow_Swallowed(c, e) ==
    [calls[c] EXCEPT !.st = "done", !.err = e, !.end = now]

\* const res = await fetcher(taskID) throws: the resolver has no try/catch,
\* the error goes to its caller and the lines after the await do not run
Rethrow(c, e) ==
    [calls[c] EXCEPT !.st = "failed", !.err = e, !.end = now]

\* the fetcher: await getTaskInfo(taskID)
FetchTaskInfo(c) ==
    /\ calls[c].st = "taskinfo"
    /\ \/ \E h \in StatusHistories :
            calls' = [calls EXCEPT ![c] =
                [@ EXCEPT !.st = "slavestate", !.status = LastStatus(h)]]
       \/ \E e \in {"TaskNotFoundError", "Error"} :
            calls' = [calls EXCEPT ![c] = Rethrow(c, e)]
    /\ UNCHANGED <<now, cache, gen, nonCacheVars>>

\* the fetcher: await getMesosSlaveState(taskInfo.agent_url), then the store
FetchSlaveState(c) ==
    /\ calls[c].st = "slavestate"
    /\ \/ LET res == Descriptor(calls[c].task, calls[c].status) IN
            /\ cache' = CacheStore(calls[c].task, res)
            /\ gen' = [gen EXCEPT ![calls[c].task] = @ + 1]
            /\ calls' = [calls EXCEPT ![c] =
                   [@ EXCEPT !.st = "done", !.res = res, !.end = now,
                             !.status = "none", !.genStored = gen[calls[c].task] + 1]]
       \/ /\ \E e \in {"MesosAgentNotFoundError", "Error"} :
               calls' = [calls EXCEPT ![c] = Rethrow(c, e)]
          /\ UNCHANGED <<cache, gen>>
    /\ UNCHANGED <<now, nonCacheVars>>

----------------------------------------------------------------------------
(* app.js: the terminal sessions *)

Pids == 1..MaxPids
ProcIds == 1..MaxProcs
Chans == 1..MaxChans

\* the geometries a resize request may ask for: <<cols, rows>>
Sizes == {<<120, 40>>}
DefaultSize == <<0, 0>>

\* the k-th chunk of output of process p; the text "undefined" that
\* JavaScript's += puts in front when the left side is undefined
Chunk(p, k) == <<p, k>>
UndefinedText == <<0, 0>>

\* all the output process p has emitted so far, in emission order
Emitted(p) == [k \in 1..procs[p].emitted |-> Chunk(p, k)]

\* the term objects created so far
Spawned == {p \in ProcIds : procs[p].st # "unborn"}
\* the processes the operating system still runs
Alive == {p \in Spawned : procs[p].st \in {"running", "killed"}}

\* terminals[pid], undefined (0) when the key is absent
Lookup(pid) == IF pid \in DOMAIN terminals THEN terminals[pid] ELSE 0

\* intersection(req.user.memberOf, groups)
intersection(array1, array2) == {n \in array1 : n \in array2}

\* isUserAllowed(groups): !groups || intersection(req.user.memberOf, groups).length > 0
isUserAllowed(groups, cn) ==
    \/ groups = NoGroups
    \/ Cardinality(intersection(MemberOf(cn), groups)) > 0

\* obj[key] = value
Put(obj, key, value) ==
    [k \in (DOMAIN obj) \cup {key} |-> IF k = key THEN value ELSE obj[k]]

\* delete obj[key]
Delete(obj, key) == [k \in (DOMAIN obj) \ {key} |-> obj[k]]

\* logs[pid] += data: string concatenation, "undefined" + data when the
\* key is absent
AppendLog(pid, data) ==
    IF pid \in DOMAIN logs
        THEN Put(logs, pid, Append(logs[pid], data))
        ELSE Put(logs, pid, <<UndefinedText, data>>)

NoProc == [st |-> "unborn", pid |-> 0, emitted |-> 0, size |-> DefaultSize,
           user |-> "none", task |-> "none"]
NoChan == [st |-> "new", term |-> 0, received |-> <<>>, replayed |-> 0]

\* app.post('/terminals/:task_id'): spawn, register, start capturing
OpenTerminal(cn, taskID) ==
    /\ isUserAllowed(env.allowed_groups, cn)
    /\ \E p \in ProcIds, pid \in Pids :
        /\ procs[p].st = "unborn"
        /\ \A q \in ProcIds : q < p => procs[q].st # "unborn"
        /\ \A q \in Alive : procs[q].pid # pid
        /\ procs' = [procs EXCEPT ![p] =
               [st |-> "running", pid |-> pid, emitted |-> 0, size |-> DefaultSize,
                user |-> cn, task |-> taskID]]
        /\ terminals' = Put(terminals, pid, p)
        /\ logs' = Put(logs, pid, <<>>)
        /\ closed' = closed \ {pid}
    /\ UNCHANGED <<chans, resp, nonTermVars>>

\* ws.send(data) inside try/catch: delivered when the socket is open,
\* the exception swallowed otherwise
Forward(ch, data) ==
    IF chans[ch].st = "open"
        THEN [chans[ch] EXCEPT !.received = Append(@, data)]
        ELSE chans[ch]

\* mutant: a chunk goes to every socket, whatever term it attached to
Listeners_All(p) == Chans

\* the sockets whose attach ran term.on('data', ...) on this term
Listeners(p) == {ch \in Chans : chans[ch].term = p}

\* the pty emits a chunk: every 'data' listener of the term runs, first the
\* one registered by the open (the log), then the one of each attach
TermData(p) ==
    /\ p \in Alive
    /\ procs[p].emitted < MaxChunks
    /\ LET data == Chunk(p, procs[p].emitted + 1) IN
        /\ procs' = [procs EXCEPT ![p].emitted = @ + 1]
        /\ logs' = AppendLog(procs[p].pid, data)
        /\ chans' = [ch \in Chans |->
               IF ch \in Listeners(p) THEN Forward(ch, data) ELSE chans[ch]]
    /\ UNCHANGED <<terminals, resp, closed, nonTermVars>>

\* the process ends (by itself or after the signal); app.js listens to no
\* 'exit' event
TermExit(p) ==
    /\ p \in Alive
    /\ procs' = [procs EXCEPT ![p].st = "exited"]
    /\ UNCHANGED <<terminals, logs, chans, resp, closed, nonTermVars>>

\* mutant: an unknown handle is skipped and the request answered
ResizeResult_Lenient(pid) == "ok"

\* term = terminals[pid]; term.resize(cols, rows): a TypeError when term is
\* undefined
ResizeResult(pid) == IF Lookup(pid) = 0 THEN "TypeError" ELSE "ok"

\* app.post('/terminals/:pid/size')
ResizeTerminal(pid, size) ==
    /\ resp' = [op |-> "resize", pid |-> pid, result |-> ResizeResult(pid)]
    /\ IF Lookup(pid) # 0 /\ Lookup(pid) \in Alive
         THEN procs' = [procs EXCEPT ![Lookup(pid)].size = size]
         ELSE UNCHANGED procs
    /\ UNCHANGED <<terminals, logs, chans, closed, nonTermVars>>

\* mutant: the attach subscribes without replaying the log
Replay_Nothing(ch, pid) == [chans[ch] EXCEPT !.st = "open", !.term = Lookup(pid)]

\* ws.send(logs[term.pid]), then term.on('data', ...)
Replay(ch, pid) ==
    [chans[ch] EXCEPT !.st = "open", !.term = Lookup(pid),
                      !.received = logs[pid], !.replayed = Len(logs[pid])]

\* term = terminals[pid]; term.pid: a TypeError when term is undefined
\* (ws.send(undefined) throws as well)
AttachResult(pid) ==
    IF Lookup(pid) = 0 \/ pid \notin DOMAIN logs THEN "TypeError" ELSE "ok"

\* app.ws('/terminals/:pid'): the lookup, then the replay and the
\* subscriptions
AttachChannel(ch, pid) ==
    /\ chans[ch].st = "new"
    /\ \A d \in Chans : d < ch => chans[d].st # "new"
    /\ resp' = [op |-> "attach", pid |-> pid, result |-> AttachResult(pid)]
    /\ IF AttachResult(pid) = "ok"
         THEN chans' = [chans EXCEPT ![ch] = Replay(ch, pid)]
         ELSE UNCHANGED chans
    /\ UNCHANGED <<terminals, logs, procs, closed, nonTermVars>>

\* the transport goes down; the 'close' event has not been delivered yet
TransportClose(ch) ==
    /\ chans[ch].st = "open"
    /\ chans' = [chans EXCEPT ![ch].st = "closing"]
    /\ UNCHANGED <<terminals, logs, procs, resp, closed, nonTermVars>>

\* term.kill(): the signal goes to the process that holds term.pid now
Kill(pid) ==
    [p \in ProcIds |->
        IF p \in Alive /\ procs[p].pid = pid
            THEN [procs[p] EXCEPT !.st = "killed"] ELSE procs[p]]

\* mutant: the close handler kills the process and forgets the registry
CloseRegistry_Kept(pid) == terminals

\* delete terminals[term.pid]
CloseRegistry(pid) == Delete(terminals, pid)

\* ws.on('close'): kill the process, delete both entries
ChannelClose(ch) ==
    /\ chans[ch].st \in {"open", "closing"}
    /\ LET pid == procs[chans[ch].term].pid IN
        /\ procs' = Kill(pid)
        /\ terminals' = CloseRegistry(pid)
        /\ logs' = Delete(logs, pid)
        /\ closed' = closed \cup {pid}
    /\ chans' = [chans EXCEPT ![ch] = [NoChan EXCEPT !.st = "closed"]]
    /\ UNCHANGED <<resp, nonTermVars>>

\* who asks for terminals, and for which task, in SpecTerm
OpenUsers == {"carol", "admin"}
OpenTasks == {"t-1"}

----------------------------------------------------------------------------
(* The sandbox routes: the gate on /api/sandbox/* and the handlers behind it *)

\* who asks for sandboxes, and with which access_token, in SpecSandbox
SandboxUsers == {"alice", "carol"}
Tokens(taskID) == {NoToken, TokenOf(taskID)}

\* mutant: the gate ignores AUTHORIZE_ALL_SANDBOXES
Enforced_AuthOnly == env.AUTHORIZATIONS_ENABLED

\* env.AUTHORIZATIONS_ENABLED && !env.AUTHORIZE_ALL_SANDBOXES
Enforced == env.AUTHORIZATIONS_ENABLED /\ ~env.AUTHORIZE_ALL_SANDBOXES

\* the catch block of the gate: the response it sends for an error, and
\* whether it returns before next()
GateStatus(err) ==
    CASE err = "MesosAgentNotFoundError" -> 400
      [] err = "UnauthorizedAccessError" -> 403
      [] err = "TaskNotFoundError" -> 404
      [] OTHER -> 500

GateReturns(err) ==
    err \in {"MesosAgentNotFoundError", "UnauthorizedAccessError", "TaskNotFoundError"}

\* the catch block of the handlers (browse, read, download)
HandlerStatus(err) ==
    CASE err = "MesosAgentNotFoundError" -> 400
      [] err = "FileNotFoundError" -> 404
      [] err = "UnauthorizedAccessError" -> 403
      [] err = "TaskNotFoundError" -> 404
      [] OTHER -> 503

\* await next(): the route handler starts, const sandbox = await
\* sandboxCache(req.query.taskID); on a hit the sandbox I/O collaborator is
\* called with the cached descriptor
EnterHandler(r) ==
    IF CacheHit(r.task)
        THEN [r EXCEPT !.pc = "io", !.next = TRUE, !.io = TRUE,
                       !.used = cache[r.task].locator]
        ELSE [r EXCEPT !.pc = "handlerTaskInfo", !.next = TRUE]

\* the gate's catch block for error err
GateCatch(r, err) ==
    LET answered == [r EXCEPT !.gate = err, !.sent = Append(@, GateStatus(err))] IN
    IF GateReturns(err) THEN [answered EXCEPT !.pc = "done"]
                        ELSE EnterHandler(answered)

\* await CheckTaskAuthorization(req, sandbox.task, req.query.access_token)
GateAuthorize(r) ==
    IF CheckTaskAuthorization(r.user, r.checked.task, r.token).allow
        THEN EnterHandler([r EXCEPT !.gate = "pass"])
        ELSE GateCatch(r, "UnauthorizedAccessError")

\* app.get('/api/sandbox/*'): the request arrives
GateEnter(r, cn, taskID, token) ==
    /\ reqs[r].pc = "free"
    /\ \A q \in Reqs : q < r => reqs[q].pc # "free"
    /\ LET req == [reqs[r] EXCEPT !.user = cn, !.task = taskID, !.token = token] IN
       reqs' = [reqs EXCEPT ![r] =
           IF ~Enforced THEN EnterHandler([req EXCEPT !.gate = "pass"])
           ELSE IF CacheHit(taskID)
               THEN [req EXCEPT !.pc = "gateAuth", !.checked = cache[taskID].locator]
               ELSE [req EXCEPT !.pc = "gateTaskInfo"]]
    /\ UNCHANGED <<now, cache, nonSandboxVars>>

\* the gate's await CheckTaskAuthorization(...) settles
GateAuth(r) ==
    /\ reqs[r].pc = "gateAuth"
    /\ reqs' = [reqs EXCEPT ![r] = GateAuthorize(reqs[r])]
    /\ UNCHANGED <<now, cache, nonSandboxVars>>

\* the fetcher called by the gate: await getTaskInfo(taskID)
GateTaskInfo(r) ==
    /\ reqs[r].pc = "gateTaskInfo"
    /\ \/ \E h \in StatusHistories :
            reqs' = [reqs EXCEPT ![r] =
                [@ EXCEPT !.pc = "gateSlaveState", !.status = LastStatus(h)]]
       \/ \E e \in {"TaskNotFoundError", "Error"} :
            reqs' = [reqs EXCEPT ![r] = GateCatch(@, e)]
    /\ UNCHANGED <<now, cache, nonSandboxVars>>

\* the fetcher called by the gate: await getMesosSlaveState(...), the store
GateSlaveState(r) ==
    /\ reqs[r].pc = "gateSlaveState"
    /\ \/ LET res == Descriptor(reqs[r].task, reqs[r].status) IN
            /\ cache' = CacheStore(reqs[r].task, res)
            /\ reqs' = [reqs EXCEPT ![r] =
                   [@ EXCEPT !.pc = "gateAuth", !.status = "none", !.checked = res]]
       \/ /\ \E e \in {"MesosAgentNotFoundError", "Error"} :
               reqs' = [reqs EXCEPT ![r] = GateCatch([@ EXCEPT !.status = "none"], e)]
          /\ UNCHANGED cache
    /\ UNCHANGED <<now, nonSandboxVars>>

\* the fetcher called by the handler: await getTaskInfo(taskID)
HandlerTaskInfo(r) ==
    /\ reqs[r].pc = "handlerTaskInfo"
    /\ \/ \E h \in StatusHistories :
            reqs' = [reqs EXCEPT ![r] =
                [@ EXCEPT !.pc = "handlerSlaveState", !.status = LastStatus(h)]]
       \/ \E e \in {"TaskNotFoundError", "Error"} :
            reqs' = [reqs EXCEPT ![r] =
                [@ EXCEPT !.pc = "done", !.sent = Append(@, HandlerStatus(e))]]
    /\ UNCHANGED <<now, cache, nonSandboxVars>>

\* the fetcher called by the handler: await getMesosSlaveState(...), the
\* store, then the call of the sandbox I/O collaborator
HandlerSlaveState(r) ==
    /\ reqs[r].pc = "handlerSlaveState"
    /\ \/ LET res == Descriptor(reqs[r].task, reqs[r].status) IN
            /\ cache' = CacheStore(reqs[r].task, res)
            /\ reqs' = [reqs EXCEPT ![r] =
                   [@ EXCEPT !.pc = "io", !.status = "none", !.io = TRUE, !.used = res]]
       \/ /\ \E e \in {"MesosAgentNotFoundError", "Error"} :
               reqs' = [reqs EXCEPT ![r] =
                   [@ EXCEPT !.pc = "done", !.status = "none",
                             !.sent = Append(@, HandlerStatus(e))]]
          /\ UNCHANGED cache
    /\ UNCHANGED <<now, nonSandboxVars>>

\* browseSandbox / readSandboxFile / downloadSandbox* settles: res.send(files)
\* or the handler's catch block
SandboxIO(r) ==
    /\ reqs[r].pc = "io"
    /\ \/ reqs' = [reqs EXCEPT ![r] = [@ EXCEPT !.pc = "done", !.sent = Append(@, 200)]]
       \/ reqs' = [reqs EXCEPT ![r] =
              [@ EXCEPT !.pc = "done", !.sent = Append(@, HandlerStatus("FileNotFoundError"))]]
    /\ UNCHANGED <<now, cache, nonSandboxVars>>

----------------------------------------------------------------------------
(* The task page (get_task_id.ts) and the API middleware AllowConfiguredUsers *)

\* mutant: the allow-list label is not recorded
RecordAdmins_Skipped(taskID, task) == adminsByTaskId

\* if (DEBUG_ALLOWED_TO_KEY in task.labels)
\*     adminsByTaskId[taskId] = task.labels[DEBUG_ALLOWED_TO_KEY].split(',')
RecordAdmins(taskID, task) ==
    IF DEBUG_ALLOWED_TO_KEY \in DOMAIN task.labels
        THEN [t \in (DOMAIN adminsByTaskId) \cup {taskID} |->
                 IF t = taskID THEN Split(task.labels[DEBUG_ALLOWED_TO_KEY])
                               ELSE adminsByTaskId[t]]
        ELSE adminsByTaskId

\* mutant: the task's user is not recorded
RecordUser_Skipped(taskID, task) == userByTaskId

\* if (task.user) userByTaskId[taskId] = task.user
RecordUser(taskID, task) ==
    IF task.user # ""
        THEN [t \in (DOMAIN userByTaskId) \cup {taskID} |->
                 IF t = taskID THEN task.user ELSE userByTaskId[t]]
        ELSE userByTaskId

\* isUserAllowedToDebug(req, res, next): the evaluator on what the page
\* handler recorded for the task
isUserAllowedToDebug(cn, taskID, admins, users) ==
    authorize(TRUE, cn, MemberOf(cn),
              taskID \in DOMAIN admins,
              IF taskID \in DOMAIN admins THEN admins[taskID] ELSE {},
              IF taskID \in DOMAIN users THEN users[taskID] ELSE "",
              NoToken, TokenOf(taskID))

\* authenticated(req, res): getTaskInfo(taskId).then(...).catch(...)
authenticated(cn, taskID) ==
    \/ LET task == TaskInfo(taskID)
           admins == RecordAdmins(taskID, task)
           users == RecordUser(taskID, task)
           decision == isUserAllowedToDebug(cn, taskID, admins, users) IN
        /\ adminsByTaskId' = admins
        /\ userByTaskId' = users
        /\ page' = [route |-> "page", user |-> cn, task |-> taskID,
                    taskInfo |-> "ok",
                    result |-> IF decision.allow THEN "renderTerminal" ELSE decision.reason,
                    delegate |-> decision.allow]
    \/ /\ page' = [route |-> "page", user |-> cn, task |-> taskID,
                   taskInfo |-> "failed",
                   result |-> "Error while retrieving task labels.",
                   delegate |-> FALSE]
       /\ UNCHANGED <<adminsByTaskId, userByTaskId>>

\* anonymous(req, res)
anonymous(cn, taskID) ==
    /\ \/ page' = [route |-> "page", user |-> cn, task |-> taskID,
                   taskInfo |-> "ok",
                   result |-> "renderTerminal", delegate |-> TRUE]
       \/ page' = [route |-> "page", user |-> cn, task |-> taskID,
                   taskInfo |-> "failed",
                   result |-> "Error while retrieving task labels.",
                   delegate |-> FALSE]
    /\ UNCHANGED <<adminsByTaskId, userByTaskId>>

\* GET /:task_id: the page is served by authenticated when authorizations
\* are enabled and by anonymous otherwise
TaskPage(cn, taskID) ==
    /\ IF env.AUTHORIZATIONS_ENABLED THEN authenticated(cn, taskID)
                                     ELSE anonymous(cn, taskID)
    /\ UNCHANGED nonPageVars

\* AllowConfiguredUsers(req, res, next) on a request whose body names
\* task_id (NoTask: the key is missing)
NoTask == "none"
AllowConfiguredUsers(cn, taskID) ==
    /\ \/ /\ taskID = NoTask
          /\ page' = [route |-> "api", user |-> cn, task |-> taskID,
                      taskInfo |-> "none", result |-> "406", delegate |-> FALSE]
       \/ /\ taskID # NoTask
          /\ \/ LET decision == CheckTaskAuthorization(cn, taskID, NoToken) IN
                page' = [route |-> "api", user |-> cn, task |-> taskID,
                         taskInfo |-> "ok",
                         result |-> IF decision.allow THEN "next" ELSE "403",
                         delegate |-> decision.allow]
             \/ page' = [route |-> "api", user |-> cn, task |-> taskID,
                         taskInfo |-> "failed", result |-> "403", delegate |-> FALSE]
    /\ UNCHANGED <<adminsByTaskId, userByTaskId, nonPageVars>>

----------------------------------------------------------------------------
(* The specifications: one per subsystem, over the same variables *)

InitCacheVars ==
    /\ now = 0
    /\ cache = <<>>
    /\ calls = [c \in Calls |-> FreeCall]
    /\ gen = [t \in Tasks |-> 0]

InitTermVars ==
    /\ terminals = <<>>
    /\ logs = <<>>
    /\ procs = [p \in ProcIds |-> NoProc]
    /\ chans = [ch \in Chans |-> NoChan]
    /\ resp = [op |-> "none", pid |-> 0, result |-> "none"]
    /\ closed = {}

InitPageVars ==
    /\ adminsByTaskId = <<>>
    /\ userByTaskId = <<>>
    /\ page = [route |-> "none", user |-> "none", task |-> "none",
               taskInfo |-> "none", result |-> "none", delegate |-> FALSE]

InitCache ==
    /\ InitCacheVars
    /\ InitTermVars
    /\ InitPageVars
    /\ reqs = [r \in Reqs |-> NoReq]
    /\ env = [AUTHORIZATIONS_ENABLED |-> TRUE, AUTHORIZE_ALL_SANDBOXES |-> FALSE,
              allowed_groups |-> NoGroups]

NextCache ==
    \/ \E c \in Calls, t \in Tasks : ResolveStart(c, t)
    \/ \E c \in Calls : FetchTaskInfo(c)
    \/ \E c \in Calls : FetchSlaveState(c)
    \/ clearExpiredEntries
    \/ Tick

SpecCache == InitCache /\ [][NextCache]_vars

InitTerm ==
    /\ InitCacheVars
    /\ InitTermVars
    /\ InitPageVars
    /\ reqs = [r \in Reqs |-> NoReq]
    /\ env = [AUTHORIZATIONS_ENABLED |-> TRUE, AUTHORIZE_ALL_SANDBOXES |-> FALSE,
              allowed_groups |-> NoGroups]

NextTerm ==
    \/ \E cn \in OpenUsers, t \in OpenTasks : OpenTerminal(cn, t)
    \/ \E p \in ProcIds : TermData(p)
    \/ \E p \in ProcIds : TermExit(p)
    \/ \E pid \in Pids, size \in Sizes : ResizeTerminal(pid, size)
    \/ \E ch \in Chans, pid \in Pids : AttachChannel(ch, pid)
    \/ \E ch \in Chans : TransportClose(ch)
    \/ \E ch \in Chans : ChannelClose(ch)

SpecTerm == InitTerm /\ [][NextTerm]_vars

\* What the runtime and the operating system guarantee to happen: the
\* 'close' event of a socket whose transport went down is delivered, and a
\* process that was sent the signal ends. Nothing makes a client open,
\* attach, resize or disconnect, nor a healthy process write or end.
DeliverClose(ch) == chans[ch].st = "closing" /\ ChannelClose(ch)
Reap(p) == procs[p].st = "killed" /\ TermExit(p)

TermFairness ==
    /\ \A ch \in Chans : WF_vars(DeliverClose(ch))
    /\ \A p \in ProcIds : WF_vars(Reap(p))

SpecTermFair == InitTerm /\ [][NextTerm]_vars /\ TermFairness

InitSandbox ==
    /\ InitCacheVars
    /\ InitTermVars
    /\ InitPageVars
    /\ reqs = [r \in Reqs |-> NoReq]
    /\ \E enabled \in BOOLEAN, all \in BOOLEAN :
         /\ ~enabled => ~all
         /\ env = [AUTHORIZATIONS_ENABLED |-> enabled, AUTHORIZE_ALL_SANDBOXES |-> all,
                   allowed_groups |-> NoGroups]

NextSandbox ==
    \/ \E r \in Reqs, cn \in SandboxUsers, t \in Tasks :
          \E token \in Tokens(t) : GateEnter(r, cn, t, token)
    \/ \E r \in Reqs : GateTaskInfo(r)
    \/ \E r \in Reqs : GateSlaveState(r)
    \/ \E r \in Reqs : GateAuth(r)
    \/ \E r \in Reqs : HandlerTaskInfo(r)
    \/ \E r \in Reqs : HandlerSlaveState(r)
    \/ \E r \in Reqs : SandboxIO(r)
    \/ clearExpiredEntries
    \/ Tick

SpecSandbox == InitSandbox /\ [][NextSandbox]_vars

InitPage ==
    /\ InitCacheVars
    /\ InitTermVars
    /\ InitPageVars
    /\ reqs = [r \in Reqs |-> NoReq]
    /\ \E enabled \in BOOLEAN :
         env = [AUTHORIZATIONS_ENABLED |-> enabled, AUTHORIZE_ALL_SANDBOXES |-> FALSE,
                allowed_groups |-> NoGroups]

NextPage ==
    \/ \E cn \in Users, t \in AllTasks : TaskPage(cn, t)
    \/ \E cn \in Users, t \in AllTasks \cup {NoTask} : AllowConfiguredUsers(cn, t)

SpecPage == InitPage /\ [][NextPage]_vars

----------------------------------------------------------------------------
(* Claims on the descriptor cache *)

Started(c) == calls[c].st # "free"
Returned(c) == calls[c].st = "done"
\* the call's fetch completed and its result was stored in the cache
Stored(c) == calls[c].st = "done" /\ calls[c].fetched

\* C1 as stated: any two resolve(T) calls made within 10 seconds of each
\* other return descriptors with identical field values and together
\* trigger at most one call to the external fetcher.
C1_TwoCallsWithinTTL ==
    \A c1, c2 \in Calls :
        (/\ c1 < c2
         /\ Returned(c1) /\ Returned(c2)
         /\ calls[c1].task = calls[c2].task
         /\ calls[c2].start - calls[c1].start < TTL)
        => /\ calls[c1].res = calls[c2].res
           /\ ~(calls[c1].fetched /\ calls[c2].fetched)

\* C1 amended: a resolve(T) call that starts less than 10 seconds after a
\* fetch for T completed and stored its result, no other fetch for T having
\* completed in between, returns exactly the descriptor that fetch stored
\* and calls no fetcher.
C1_LiveEntryServed ==
    \A c1, c2 \in Calls :
        (/\ c1 # c2
         /\ Stored(c1) /\ Started(c2)
         /\ calls[c1].task = calls[c2].task
         /\ calls[c2].genAtStart = calls[c1].genStored
         /\ calls[c2].start < calls[c1].end + TTL)
        => /\ Returned(c2)
           /\ ~calls[c2].fetched
           /\ calls[c2].res = calls[c1].res

\* a call served from the entry another call stored, after the clock moved
C1_Witness ==
    \E c1, c2 \in Calls :
        /\ c1 # c2
        /\ Stored(c1) /\ Returned(c2)
        /\ calls[c1].task = calls[c2].task
        /\ calls[c2].genAtStart = calls[c1].genStored
        /\ calls[c2].start > calls[c1].end
        /\ calls[c2].start < calls[c1].end + TTL
        /\ ~calls[c2].fetched

\* C2 as stated: a resolve(T) call issued 10 or more seconds after a prior
\* resolve(T) call triggers a fresh call to the fetcher, however long the
\* prior call's fetch took.
C2_FreshAfterPriorCall ==
    \A c1, c2 \in Calls :
        (/\ c1 < c2
         /\ Started(c1) /\ Started(c2)
         /\ calls[c1].task = calls[c2].task
         /\ calls[c2].start >= calls[c1].start + TTL)
        => calls[c2].fetched

\* C2 amended: a resolve(T) call issued 10 or more seconds after the
\* completion of every fetch for T that stored an entry before it triggers
\* a fresh call to the fetcher.
C2_FreshAfterExpiry ==
    \A c2 \in Calls :
        (/\ Started(c2)
         /\ \A c1 \in Calls \ {c2} :
               (/\ Stored(c1)
                /\ calls[c1].task = calls[c2].task
                /\ calls[c1].genStored <= calls[c2].genAtStart)
               => calls[c2].start >= calls[c1].end + TTL)
        => calls[c2].fetched

\* a call that refetches an entry stored 10 or more seconds before
C2_Witness ==
    \E c1, c2 \in Calls :
        /\ c1 # c2
        /\ Stored(c1) /\ Stored(c2)
        /\ calls[c1].task = calls[c2].task
        /\ calls[c1].genStored <= calls[c2].genAtStart
        /\ calls[c2].start >= calls[c1].end + TTL

\* the step in which call c is made: the resolver runs up to its await
ResolveStep(c) == calls[c].st = "free" /\ calls'[c].st # "free"

\* the entry of task t is created or replaced by the step
EntryWritten(t) ==
    /\ t \in DOMAIN cache'
    /\ t \notin DOMAIN cache \/ cache'[t] # cache[t]

\* C14: a cache entry changes only by being created or replaced when a
\* fetch completes (expireAt = that instant + 10 s) or by being removed; a
\* resolve changes no entry, is served the entry of its task when the
\* clock is before the entry's expireAt and fetches when it is at or past
\* it, however many hits the entry has served.
C14_EntryImmutable ==
    [][/\ \A t \in Tasks :
             EntryWritten(t) => /\ gen'[t] = gen[t] + 1
                                /\ cache'[t].expireAt = now + TTL
       /\ \A c \in Calls :
             ResolveStep(c) =>
                 LET t == calls'[c].task IN
                 /\ cache' = cache
                 /\ t \in DOMAIN cache =>
                        IF now < cache[t].expireAt
                            THEN /\ calls'[c].st = "done"
                                 /\ ~calls'[c].fetched
                                 /\ calls'[c].res = cache[t].locator
                            ELSE calls'[c].fetched]_vars

\* an entry stored at time e that served a hit after e, is still the entry
\* stored at e, and was refused to a resolve at e + 10 s or later
C14_Witness ==
    \E c1, c2, c3 \in Calls :
        /\ Stored(c1)
        /\ calls[c2].task = calls[c1].task /\ calls[c3].task = calls[c1].task
        /\ Returned(c2) /\ ~calls[c2].fetched
        /\ calls[c2].genAtStart = calls[c1].genStored
        /\ calls[c2].start > calls[c1].end
        /\ calls[c3].st = "taskinfo"
        /\ calls[c3].genAtStart = calls[c1].genStored
        /\ calls[c3].start >= calls[c1].end + TTL
        /\ calls[c1].task \in DOMAIN cache
        /\ cache[calls[c1].task] = [expireAt |-> calls[c1].end + TTL,
                                    locator |-> calls[c1].res]

\* the call whose fetch stored the latest entry of task t
LastStore(t) ==
    CHOOSE c \in Calls :
        Stored(c) /\ calls[c].task = t /\ calls[c].genStored = gen[t]

\* the cache of the system in which the sweep never runs: the latest entry
\* stored for each task, expired or not
Unswept ==
    [t \in {u \in Tasks : gen[u] > 0} |->
        [expireAt |-> calls[LastStore(t)].end + TTL,
         locator |-> calls[LastStore(t)].res]]

\* the hit test of the resolver on the cache that is never swept
UnsweptHit(t) == t \in DOMAIN Unswept /\ Unswept[t].expireAt > now

\* C15: the sweep is advisory. The cache is the never-swept cache less
\* entries whose expireAt has passed, so every resolve hits or misses, and
\* is served the same descriptor, exactly as if the sweep never ran.
C15_SweepAdvisory ==
    \A t \in Tasks :
        /\ t \in DOMAIN cache => (t \in DOMAIN Unswept /\ cache[t] = Unswept[t])
        /\ (t \in DOMAIN Unswept /\ t \notin DOMAIN cache) => Unswept[t].expireAt < now
        /\ CacheHit(t) <=> UnsweptHit(t)
        /\ CacheHit(t) => cache[t].locator = Unswept[t].locator

\* the sweep removed the entry of a task while the entry of another task
\* is live, and a resolve of the first task made after the expiry fetches
C15_Witness ==
    \E t, u \in Tasks, c \in Calls :
        /\ t \in DOMAIN Unswept /\ t \notin DOMAIN cache
        /\ CacheHit(u)
        /\ calls[c].task = t /\ calls[c].st = "taskinfo"
        /\ calls[c].genAtStart = gen[t]
        /\ calls[c].start > Unswept[t].expireAt

\* the fetch of call c failed
Failed(c) == calls[c].err # "none"

\* the calls whose fetch stored an entry for task t
StoredFor(t) == {c \in Calls : Stored(c) /\ calls[c].task = t}

\* a failed call ended with the error and without descriptor; entries come
\* from successful fetches only and hold a descriptor of their task
C16_FailureObserved ==
    /\ \A c \in Calls :
          Failed(c) => /\ calls[c].st = "failed"
                       /\ calls[c].fetched
                       /\ calls[c].res = NoDesc
                       /\ calls[c].genStored = 0
    /\ \A t \in Tasks : gen[t] = Cardinality(StoredFor(t))
    /\ \A t \in DOMAIN cache : cache[t].locator # NoDesc /\ cache[t].locator.task = t

\* the step in which a fetch fails writes nothing in the cache; a failed
\* call does nothing more (no retry); a resolve made when its task has no
\* live entry fetches
C16_FailureStep ==
    \A c \in Calls :
        /\ (~Failed(c) /\ calls'[c].err # "none") => (cache' = cache /\ gen' = gen)
        /\ Failed(c) => calls'[c] = calls[c]
        /\ (ResolveStep(c) /\ ~CacheHit(calls'[c].task)) =>
               (calls'[c].fetched /\ calls'[c].st = "taskinfo")

\* C16: when the fetch behind resolve(T) fails the caller gets the error,
\* the call fetched once and is not retried, the cache is left as it was
\* (no entry created or replaced), and the next resolve(T) without live
\* entry fetches again.
C16_FailureLeavesCache ==
    []C16_FailureObserved /\ [][C16_FailureStep]_vars

\* the agent-state lookup of a call failed, nothing was stored for its
\* task, and a later resolve of the task fetched and stored the first entry
C16_Witness ==
    \E c1, c2 \in Calls :
        /\ calls[c1].err = "MesosAgentNotFoundError"
        /\ calls[c2].task = calls[c1].task
        /\ calls[c2].start > calls[c1].end
        /\ Stored(c2)
        /\ gen[calls[c1].task] = 1

\* the fetch of call c is pending
InFlight(c) == calls[c].st \in {"taskinfo", "slavestate"}

\* the entry of each task is the one stored by the fetch that completed
\* last for it
C17_LastCompletionStored ==
    \A t \in DOMAIN cache :
        /\ StoredFor(t) # {}
        /\ cache[t] = [expireAt |-> calls[LastStore(t)].end + TTL,
                       locator |-> calls[LastStore(t)].res]
        /\ \A c \in StoredFor(t) :
              /\ calls[c].end <= calls[LastStore(t)].end
              /\ calls[c].genStored <= calls[LastStore(t)].genStored

\* a resolve made while its task has no live entry fetches, also when a
\* fetch for the task is pending; a fetch that completes returns its own
\* result and overwrites the entry of its task with it
C17_OwnFetchStep ==
    \A c \in Calls :
        /\ (/\ ResolveStep(c)
            /\ ~CacheHit(calls'[c].task)
            /\ \E d \in Calls \ {c} : InFlight(d) /\ calls[d].task = calls'[c].task)
           => (calls'[c].fetched /\ InFlight(c)')
        /\ (calls[c].st = "slavestate" /\ calls'[c].st = "done")
           => LET own == Descriptor(calls[c].task, calls[c].status) IN
              /\ calls'[c].res = own
              /\ cache'[calls[c].task] = [expireAt |-> now + TTL, locator |-> own]
              /\ gen'[calls[c].task] = gen[calls[c].task] + 1

\* C17: resolve(T) calls that start while T has no live entry are not
\* coalesced: each fetches and returns the result of its own fetch, each
\* completion overwrites the entry, and the entry left is the result of
\* the fetch that completed last, expiring 10 s after that completion.
C17_NotCoalesced ==
    []C17_LastCompletionStored /\ [][C17_OwnFetchStep]_vars

\* two calls for one task, both made before either fetch completed, got
\* different results; the one made first completed last and its result is
\* the entry
C17_Witness ==
    \E c1, c2 \in Calls :
        /\ c1 < c2
        /\ calls[c1].task = calls[c2].task
        /\ Stored(c1) /\ Stored(c2)
        /\ calls[c2].start < calls[c2].end
        /\ calls[c2].end < calls[c1].end
        /\ calls[c1].res # calls[c2].res
        /\ cache[calls[c1].task] = [expireAt |-> calls[c1].end + TTL,
                                    locator |-> calls[c1].res]

----------------------------------------------------------------------------
(* Claims on the sandbox gate *)

GateErrors == {"MesosAgentNotFoundError", "UnauthorizedAccessError",
               "TaskNotFoundError", "Error"}

\* C3: with enforcement enabled and the sandbox surface not exempt, the
\* sandbox I/O collaborator is invoked only if the resolve-then-authorize
\* step of the same request completed without error; when that step ends in
\* any error the route handler is not invoked and no file bytes are read.
C3_NoIOWithoutAuthorization ==
    Enforced =>
        \A r \in Reqs :
            /\ reqs[r].io => reqs[r].gate = "pass"
            /\ reqs[r].gate \in GateErrors => ~reqs[r].next /\ ~reqs[r].io

\* enforcement is disabled, or the sandboxes are configured exempt
Exempt == ~env.AUTHORIZATIONS_ENABLED \/ env.AUTHORIZE_ALL_SANDBOXES

\* the positions of a request inside the gate's resolve-then-authorize
GatePcs == {"gateTaskInfo", "gateSlaveState", "gateAuth"}

\* C18: with enforcement disabled, or the sandboxes exempt, the gate
\* resolves no descriptor, checks no authorization, sends no response (no
\* deny in particular) and passes every request to the route handler.
C18_ExemptPassesAll ==
    Exempt =>
        \A r \in Reqs :
            reqs[r].pc # "free" =>
                /\ reqs[r].pc \notin GatePcs
                /\ reqs[r].checked = NoDesc
                /\ reqs[r].gate = "pass"
                /\ reqs[r].next
                /\ \A i \in 1..Len(reqs[r].sent) : reqs[r].sent[i] # 403

\* sandboxes exempt while authorizations are enabled: carol, whom the
\* label of t-1 does not name, was served the files without token
C18_Witness ==
    /\ env.AUTHORIZATIONS_ENABLED /\ env.AUTHORIZE_ALL_SANDBOXES
    /\ \E r \in Reqs :
          /\ reqs[r].user = "carol" /\ reqs[r].task = "t-1"
          /\ reqs[r].token = NoToken
          /\ reqs[r].io
          /\ reqs[r].sent = <<200>>

\* C19: every request through the gate has one outcome: the gate answers
\* with an error and the route handler does not run, or the gate sends
\* nothing and the handler runs and sends the one response; never both a
\* response of the gate and a run of the handler.
C19_OneOutcome ==
    \A r \in Reqs :
        /\ ~(reqs[r].gate \in GateErrors /\ reqs[r].next)
        /\ Len(reqs[r].sent) <= 1
        /\ reqs[r].pc = "done" => Len(reqs[r].sent) = 1

\* C20: with enforcement enabled, the descriptor handed to the sandbox I/O
\* collaborator by a request that passed the gate is the descriptor whose
\* task the gate's authorization step checked.
C20_AuthorizedDescriptorUsed ==
    Enforced =>
        \A r \in Reqs :
            (reqs[r].gate = "pass" /\ reqs[r].io) => reqs[r].used = reqs[r].checked

----------------------------------------------------------------------------
(* Claims on the authorization of the task page and of the API *)

\* the last request was answered after getTaskInfo gave the task, for a
\* principal whose name is the task's owning user
OwnerAsked ==
    /\ env.AUTHORIZATIONS_ENABLED
    /\ page.taskInfo = "ok"
    /\ page.user = TaskInfo(page.task).user

\* C8 as stated: with enforcement enabled, a principal whose name equals the
\* task's owning user is allowed, whatever the allow-list label of the task.
C8_OwnerAlwaysAllowed ==
    OwnerAsked => page.delegate

\* C8 amended: with enforcement enabled, a principal whose name equals the
\* task's owning user is allowed when the task carries no allow-list label
\* or the label names the principal.
C8_OwnerAllowedUnlessListed ==
    (/\ OwnerAsked
     /\ \/ DEBUG_ALLOWED_TO_KEY \notin DOMAIN TaskInfo(page.task).labels
        \/ page.user \in Split(TaskInfo(page.task).labels[DEBUG_ALLOWED_TO_KEY]))
    => page.delegate

\* the owner of a task without allow-list label is shown the terminal page
C8_Witness ==
    /\ OwnerAsked
    /\ page.route = "page"
    /\ DEBUG_ALLOWED_TO_KEY \notin DOMAIN TaskInfo(page.task).labels
    /\ page.result = "renderTerminal"

----------------------------------------------------------------------------
(* Claims on the terminal sessions *)

\* the sessions in the registry
Registered == {terminals[pid] : pid \in DOMAIN terminals}

\* the decision of the evaluator for the request that opened session p
OpeningDecision(p) == CheckTaskAuthorization(procs[p].user, procs[p].task, NoToken)

\* C4: an open-terminal request for task X spawns the process and
\* registers a session only after the authorization decision for (requesting
\* principal, task X) is allow: no registered session exists whose opening
\* request was not authorized for that task.
C4_SessionsAuthorized ==
    \A p \in Registered : OpeningDecision(p).allow

\* C5: an open channel attached to a session has received exactly the
\* chunks the process emitted, the ones emitted before the attach first, in
\* emission order, none missing and none twice.
C5_ReplayThenLive ==
    \A ch \in Chans :
        chans[ch].st = "open" => chans[ch].received = Emitted(chans[ch].term)

\* a channel that attached after one chunk and then received a later one
C5_Witness ==
    \E ch \in Chans :
        /\ chans[ch].st = "open"
        /\ chans[ch].replayed = 1
        /\ Len(chans[ch].received) = 2

\* C6: after the channel attached to session S closes, every lookup of S's
\* handle finds no session and fails, until a new open allocates the handle.
C6_ClosedHandleNotFound ==
    \A pid \in closed :
        /\ Lookup(pid) = 0
        /\ ResizeResult(pid) = "TypeError"
        /\ AttachResult(pid) = "TypeError"

\* a resize that failed on a handle a channel closure destroyed
C6_Witness ==
    \E pid \in closed : resp = [op |-> "resize", pid |-> pid, result |-> "TypeError"]

\* C7: a resize request for a handle that is not in the registry fails and
\* leaves the registry, every buffer and every process unchanged.
C7_ResizeUnknown ==
    [][(resp' # resp /\ resp'.op = "resize" /\ resp'.pid \notin DOMAIN terminals)
          => (resp'.result = "TypeError" /\ UNCHANGED <<terminals, logs, procs, chans>>)]_vars

\* a failed resize of an unknown handle while another session is live
C7_Witness ==
    /\ resp.op = "resize" /\ resp.result = "TypeError"
    /\ resp.pid \notin DOMAIN terminals
    /\ \E p \in Registered : p \in Alive /\ procs[p].emitted > 0

\* the principals of C9: not on the task's allow-list label, not the owning
\* user, in no super-admin group
C9_Principal(cn, taskID) ==
    /\ cn \in Users /\ taskID \in AllTasks
    /\ DEBUG_ALLOWED_TO_KEY \in DOMAIN TaskInfo(taskID).labels
    /\ cn \notin Split(TaskInfo(taskID).labels[DEBUG_ALLOWED_TO_KEY])
    /\ cn # TaskInfo(taskID).user
    /\ MemberOf(cn) \cap SUPER_ADMINS = {}

\* C9: for a task carrying an allow-list label and a principal not on it,
\* not the owner, in no super-admin group and without token, every gated
\* operation is denied and reaches no delegate: no session is spawned for
\* such an opening request.
C9_DeniedEverywhere ==
    /\ \A p \in Spawned : ~C9_Principal(procs[p].user, procs[p].task)
    /\ \A r \in Reqs :
          (/\ Enforced
           /\ C9_Principal(reqs[r].user, reqs[r].task)
           /\ reqs[r].token # TokenOf(reqs[r].task))
          => /\ ~reqs[r].next /\ ~reqs[r].io
             /\ (reqs[r].checked # NoDesc /\ reqs[r].gate # "none")
                    => reqs[r].gate = "UnauthorizedAccessError"
    /\ (/\ env.AUTHORIZATIONS_ENABLED
        /\ page.taskInfo = "ok"
        /\ C9_Principal(page.user, page.task))
       => /\ ~page.delegate
          /\ page.route = "page" =>
                page.result \in {"unauthorized access to container",
                                 "unauthorized access to root container"}

\* C10: once a channel closure destroyed a session its handle has neither a
\* registry entry nor a buffer until a new open registers it, and the
\* handles with a buffer are exactly the handles with a registry entry.
C10_BufferFollowsRegistry ==
    /\ DOMAIN logs = DOMAIN terminals
    /\ \A pid \in closed : pid \notin DOMAIN terminals /\ pid \notin DOMAIN logs

\* the process of session p ended while the registry still held the session
ExitedRegistered(p) == p \in Registered /\ procs[p].st = "exited"

\* the session of process p is torn down: no registry entry, no buffer
TornDown(p) == p \notin Registered /\ procs[p].pid \notin DOMAIN logs

\* C11: when the process of a registered session ends by itself, the
\* session is eventually torn down (registry entry and buffer removed),
\* whether or not a channel is attached or closes.
C11_ExitTearsDown ==
    \A p \in ProcIds : ExitedRegistered(p) ~> TornDown(p)

\* the registry and buffer entries, and the process, of the sessions other
\* than s are the same before and after the step
OthersUntouched(s) ==
    /\ \A p \in ProcIds \ {s} : procs'[p] = procs[p]
    /\ \A pid \in DOMAIN terminals :
          terminals[pid] # s =>
              /\ pid \in DOMAIN terminals' /\ terminals'[pid] = terminals[pid]
              /\ pid \in DOMAIN logs => (pid \in DOMAIN logs' /\ logs'[pid] = logs[pid])

\* C12: the close of the channel attached to session S kills only S's
\* process and removes only S's registry and buffer entries; the entries,
\* the process and the buffer of every other session, and the descriptor
\* cache with its pending fetches, are unchanged by that step.
C12_CloseOnlyOwnSession ==
    [][\A ch \in Chans :
          (chans[ch].st \in {"open", "closing"} /\ chans'[ch].st = "closed")
          => /\ OthersUntouched(chans[ch].term)
             /\ UNCHANGED <<cache, calls, reqs>>]_vars

\* C13: of two sessions with an open channel each, the channel of the one
\* has received exactly the chunks its own process emitted, in emission
\* order, and no chunk of the other.
C13_NoCrossTalk ==
    \A c1, c2 \in Chans :
        (/\ chans[c1].st = "open" /\ chans[c2].st = "open"
         /\ chans[c1].term # chans[c2].term)
        => /\ chans[c1].received = Emitted(chans[c1].term)
           /\ \A i \in 1..Len(chans[c1].received) :
                  chans[c1].received[i][1] # chans[c2].term

\* two live sessions, each with its own open channel, each channel having
\* received output, the first chunks in the order 1, 2, 1 of the processes
C13_Witness ==
    \E c1, c2 \in Chans :
        /\ chans[c1].st = "open" /\ chans[c2].st = "open"
        /\ chans[c1].term = 1 /\ chans[c2].term = 2
        /\ {1, 2} \subseteq Alive
        /\ Len(chans[c1].received) = 2 /\ Len(chans[c2].received) = 1
        /\ chans[c1].replayed = 0 /\ chans[c2].replayed = 0

\* every registry entry under handle h holds the process spawned with pid h
C21_EntryIsOwnProcess ==
    \A h \in DOMAIN terminals :
        terminals[h] \in Spawned /\ procs[terminals[h]].pid = h

\* no step replaces the registry entry, or resets the buffer, of a session
\* that is registered; a channel's close removes no entry but the one of
\* the session the channel attached to
C21_NoOverwriteStep ==
    /\ \A h \in DOMAIN terminals :
          h \in DOMAIN terminals' =>
              /\ terminals'[h] = terminals[h]
              /\ (h \in DOMAIN logs /\ h \in DOMAIN logs' /\ logs'[h] = <<>>)
                     => logs[h] = <<>>
    /\ \A ch \in Chans :
          (chans[ch].st \in {"open", "closing"} /\ chans'[ch].st = "closed")
          => \A h \in DOMAIN terminals :
                 h \notin DOMAIN terminals' => terminals[h] = chans[ch].term

\* C21: each registry entry under handle h is the process spawned by the
\* open that registered h, an open never overwrites the registry or buffer
\* entry of a session still registered, and a channel's close removes only
\* the entry of the session it attached to, also when the operating system
\* reuses the handle of a process that ended while registered.
C21_RegistryIntegrity ==
    []C21_EntryIsOwnProcess /\ [][C21_NoOverwriteStep]_vars

====
